---------------------------- MODULE Spec2Model ----------------------------
(***************************************************************************)
(* Model of pytreegrav's Octree (src/src/pytreegrav/octree.py): the        *)
(* constructor Octree.__init__, BuildTree, SetupTreewalk, ComputeMoments   *)
(* and GetWalkIndices.                                                     *)
(*                                                                         *)
(* Reals.  float64 values are modelled by exact rationals <<n, d>> with    *)
(* d > 0 in lowest terms, so that equal values are equal tuples.  Rounding *)
(* is not modelled, except for the one place where the code depends on it: *)
(* the jitter factor exp(3e-16*(u-0.5)) of BuildTree, which in float64 is  *)
(* one of 1-eps/2, 1, 1+eps and moves a coordinate by at most one grid     *)
(* step of its representation (and never moves 0.0).  The model's grid     *)
(* step is Ulp.                                                            *)
(*                                                                         *)
(* Deltas.  The model stores the square of the distance the code stores    *)
(* (np.sqrt is strictly increasing on the non-negative reals, so equality  *)
(* and order of the stored values are those of the squares).               *)
(*                                                                         *)
(* Arrays are functions on 0..NumNodes-1 as in the code; a 3-vector is a   *)
(* tuple indexed 1..3, so the code's dim d is the model's d+1.             *)
(***************************************************************************)
EXTENDS Integers, Sequences, FiniteSets, TLC

\* ------------------------------------------------------------------ bounds
\* largest number of particles given to the constructor
MaxN == 4

\* ------------------------------------------------------- exact arithmetic
Abs(x) == IF x < 0 THEN -x ELSE x

RECURSIVE GCD(_, _)
GCD(a, b) == IF b = 0 THEN a ELSE GCD(b, a % b)

LCM(a, b) == (a \div GCD(a, b)) * b

\* the rational n/d in lowest terms (d > 0)
Norm(n, d) ==
    IF d = 1 THEN <<n, 1>>
    ELSE IF n = 0 THEN <<0, 1>>
    ELSE LET g == GCD(Abs(n), d) IN <<n \div g, d \div g>>

R(k) == <<k, 1>>
RZero == <<0, 1>>
RAdd(a, b) ==
    IF a[1] = 0 THEN b
    ELSE IF b[1] = 0 THEN a
    ELSE IF a[2] = b[2] THEN Norm(a[1] + b[1], a[2])
    ELSE LET l == LCM(a[2], b[2])
         IN  Norm(a[1] * (l \div a[2]) + b[1] * (l \div b[2]), l)
RNeg(a) == <<-a[1], a[2]>>
RSub(a, b) == RAdd(a, RNeg(b))
RMul(a, b) == IF a[1] = 0 \/ b[1] = 0 THEN <<0, 1>> ELSE Norm(a[1] * b[1], a[2] * b[2])
\* a / b for b > 0
RDiv(a, b) == Norm(a[1] * b[2], a[2] * b[1])
RGt(a, b) == a[1] * b[2] > b[1] * a[2]
RMax(a, b) == IF RGt(b, a) THEN b ELSE a
RMin(a, b) == IF RGt(a, b) THEN b ELSE a

Dims == 1..3
VZero == <<RZero, RZero, RZero>>
VAdd(u, v) == [d \in Dims |-> RAdd(u[d], v[d])]
VSub(u, v) == [d \in Dims |-> RSub(u[d], v[d])]
VScale(s, v) == [d \in Dims |-> RMul(s, v[d])]
Dot(u, v) == RAdd(RAdd(RMul(u[1], v[1]), RMul(u[2], v[2])), RMul(u[3], v[3]))

\* 3x3 tensors
MZero == <<VZero, VZero, VZero>>
MAdd(A, B) == [a \in Dims |-> [b \in Dims |-> RAdd(A[a][b], B[a][b])]]

\* max and min of a column of points
RECURSIVE ColMax(_, _, _)
ColMax(pts, d, k) ==
    IF k = 1 THEN pts[1][d] ELSE RMax(ColMax(pts, d, k - 1), pts[k][d])
RECURSIVE ColMin(_, _, _)
ColMin(pts, d, k) ==
    IF k = 1 THEN pts[1][d] ELSE RMin(ColMin(pts, d, k - 1), pts[k][d])

\* ------------------------------------------------------------------ inputs
\* positions the particles are drawn from
PointSet == { <<R(0), R(0), R(0)>>, <<R(1), R(0), R(0)>>, <<R(3), R(0), R(0)>>,
              <<R(8), R(0), R(1)>> }
\* the masses arguments of n particles: all equal, or alternating
MassVectors(n) == { [k \in 0..(n - 1) |-> 1], [k \in 0..(n - 1) |-> 1 + (k % 2)] }
\* the softening arguments of n particles: growing with the index
SoftVectors(n) == { [k \in 0..(n - 1) |-> k] }

\* the grid step by which a jittered coordinate moves
Ulp == <<1, 4>>
\* the three values the jitter factor takes: below 1, 1, above 1
JitterFactors == {-1, 0, 1}

\* octant_offsets without its factor 0.25
octant_signs == [o \in 0..7 |->
    CASE o = 0 -> <<-1, -1, -1>>
      [] o = 1 -> << 1, -1, -1>>
      [] o = 2 -> <<-1,  1, -1>>
      [] o = 3 -> << 1,  1, -1>>
      [] o = 4 -> <<-1, -1,  1>>
      [] o = 5 -> << 1, -1,  1>>
      [] o = 6 -> <<-1,  1,  1>>
      [] o = 7 -> << 1,  1,  1>>]
octant_offsets == [o \in 0..7 |-> [d \in Dims |-> <<octant_signs[o][d], 4>>]]

\* ------------------------------------------------------------------- state
VARIABLES
    pc,              \* position in Octree.__init__
    pass,            \* 1: the provisional build, 2: the Morton-order rebuild
    NumParticles,
    points,          \* the points array of the running BuildTree call
    masses,          \* the constructor's masses argument
    softening,       \* the constructor's softening argument
    morton_order,
    HasQuads,
    tree,            \* Sizes, Deltas, Coordinates, Masses, Quadrupoles, Softenings,
                     \* NextBranch, FirstSubnode
    TreewalkIndices,
    children,
    new_node_idx,
    i,               \* BuildTree's loop variable
    no,              \* BuildTree's current node
    Center,          \* history: the geometric center each node was allocated with
    points0          \* history: the constructor's points argument as given

vars == <<pc, pass, NumParticles, points, masses, softening, morton_order, HasQuads,
          tree, TreewalkIndices, children, new_node_idx, i, no, Center, points0>>

NumNodes == 2 * NumParticles
Root == NumParticles
Particles == 0..(NumParticles - 1)
Elements == 0..(NumNodes - 1)

Init ==
    /\ NumParticles \in 1..MaxN
    /\ points \in [0..(NumParticles - 1) -> PointSet]
    /\ points0 = points
    /\ masses \in MassVectors(NumParticles)
    /\ softening \in SoftVectors(NumParticles)
    /\ morton_order \in BOOLEAN
    /\ HasQuads \in BOOLEAN
    /\ TreewalkIndices = [k \in 0..(NumParticles - 1) |-> -1]
    /\ pc = "start"
    /\ pass = 1
    /\ tree = [Sizes |-> <<>>, Deltas |-> <<>>, Coordinates |-> <<>>, Masses |-> <<>>,
               Quadrupoles |-> <<>>, Softenings |-> <<>>,
               NextBranch |-> <<>>, FirstSubnode |-> <<>>]
    /\ children = <<>>
    /\ new_node_idx = 0
    /\ i = 0
    /\ no = -1
    /\ Center = <<>>

\* ---------------------------------------------------------------- BuildTree
\* points as a sequence 1..N, for ColMax and ColMin
AsSeq(pts) == [k \in 1..NumParticles |-> pts[k - 1]]

RootSize(pts) ==
    LET span(d) == RSub(ColMax(AsSeq(pts), d, NumParticles),
                        ColMin(AsSeq(pts), d, NumParticles))
    IN  RMax(RMax(span(1), span(2)), span(3))

RootCenter(pts) ==
    [d \in Dims |-> RMul(<<1, 2>>, RAdd(ColMax(AsSeq(pts), d, NumParticles),
                                        ColMin(AsSeq(pts), d, NumParticles)))]

\* the attributes as BuildTree initialises them, before the insertion loop
InitialTree(pts, ms, hs) ==
    [Sizes       |-> [e \in Elements |-> IF e = Root THEN RootSize(pts) ELSE RZero],
     Deltas      |-> [e \in Elements |-> RZero],
     Masses      |-> [e \in Elements |-> IF e < NumParticles THEN ms[e] ELSE 0],
     Quadrupoles |-> [e \in Elements |-> MZero],
     Softenings  |-> [e \in Elements |-> IF e < NumParticles THEN hs[e] ELSE 0],
     Coordinates |-> [e \in Elements |-> IF e < NumParticles THEN pts[e]
                                         ELSE IF e = Root THEN RootCenter(pts)
                                         ELSE VZero],
     NextBranch  |-> [e \in Elements |-> -1],
     FirstSubnode|-> [e \in Elements |-> -1]]

\* the part of BuildTree before its first loop iteration, on the arguments given
BuildTreeBegin(pts, ms, hs) ==
    /\ points' = pts
    /\ tree' = InitialTree(pts, ms, hs)
    /\ children' = [e \in Elements |-> [o \in 0..7 |-> -1]]
    /\ new_node_idx' = NumParticles + 1
    /\ Center' = [e \in Elements |-> IF e = Root THEN RootCenter(pts) ELSE VZero]
    /\ i' = 0
    /\ no' = NumParticles
    /\ pc' = "insert"

\* the octant of node c (a center) that position p lies in
Octant(p, c) ==
    (IF RGt(p[1], c[1]) THEN 1 ELSE 0) + (IF RGt(p[2], c[2]) THEN 2 ELSE 0)
  + (IF RGt(p[3], c[3]) THEN 4 ELSE 0)

octant == Octant(points[i], tree.Coordinates[no])
child_candidate == children[no][octant]
same_coord == \A k \in Dims : tree.Coordinates[i][k] = tree.Coordinates[child_candidate][k]

\* a coordinate times the jitter factor: 0.0 stays 0.0, any other value moves by
\* one grid step away from zero (factor above 1), towards zero (below 1) or not
\* at all
JitterCoord(c, f) ==
    IF c[1] = 0 THEN c
    ELSE IF c[1] > 0 THEN RAdd(c, RMul(R(f), Ulp))
    ELSE RSub(c, RMul(R(f), Ulp))

\* __init__, line 39: the provisional build starts
FirstBuild ==
    /\ pc = "start"
    /\ BuildTreeBegin(points, masses, softening)
    /\ UNCHANGED <<pass, NumParticles, masses, softening, morton_order, HasQuads,
                   TreewalkIndices, points0>>

\* the octant is empty: the point becomes that child, and the loop goes on with
\* the next point or BuildTree returns
InsertPlace ==
    /\ pc = "insert"
    /\ child_candidate = -1
    /\ children' = [children EXCEPT ![no][octant] = i]
    /\ i' = i + 1
    /\ no' = IF i + 1 < NumParticles THEN NumParticles ELSE -1
    /\ pc' = IF i + 1 < NumParticles THEN "insert" ELSE "built"
    /\ UNCHANGED <<pass, NumParticles, points, masses, softening, morton_order, HasQuads,
                   tree, TreewalkIndices, new_node_idx, Center, points0>>

\* the octant holds a node: go to it
InsertDescend ==
    /\ pc = "insert"
    /\ child_candidate >= NumParticles
    /\ no' = child_candidate
    /\ UNCHANGED <<pc, pass, NumParticles, points, masses, softening, morton_order,
                   HasQuads, tree, TreewalkIndices, children, new_node_idx, i, Center,
                   points0>>

\* the octant holds a particle at the same coordinates: perturb the new point and
\* restart from the root
InsertJitter ==
    /\ pc = "insert"
    /\ child_candidate > -1
    /\ child_candidate < NumParticles
    /\ same_coord
    /\ \E f \in [Dims -> JitterFactors] :
         LET moved == [d \in Dims |-> JitterCoord(tree.Coordinates[i][d], f[d])]
         IN  /\ tree' = [tree EXCEPT !.Coordinates[i] = moved]
             /\ points' = [points EXCEPT ![i] = moved]
    /\ no' = NumParticles
    /\ UNCHANGED <<pc, pass, NumParticles, masses, softening, morton_order, HasQuads,
                   TreewalkIndices, children, new_node_idx, i, Center, points0>>

\* the slot the particle was in now holds the new node only
SplitChildren_lost(ch, nd, o, new, new_o, cc) == [ch EXCEPT ![nd][o] = new]

\* the two stores to children of a split: the new node takes the slot of the
\* particle cc, and cc becomes a child of the new node
SplitChildren(ch, nd, o, new, new_o, cc) ==
    [ch EXCEPT ![nd][o] = new, ![new][new_o] = cc]

\* the octant holds a particle elsewhere: a new node takes its place and holds it.
\* With new_node_idx = NumNodes the store to Coordinates[new_node_idx] is outside
\* the arrays; what follows is not defined by the program and is the state "oob".
InsertSplit ==
    /\ pc = "insert"
    /\ child_candidate > -1
    /\ child_candidate < NumParticles
    /\ ~same_coord
    /\ IF new_node_idx >= NumNodes
       THEN /\ pc' = "oob"
            /\ children' = [children EXCEPT ![no][octant] = new_node_idx]
            /\ UNCHANGED <<tree, Center, no, new_node_idx>>
       ELSE LET center == VAdd(tree.Coordinates[no],
                               VScale(tree.Sizes[no], octant_offsets[octant]))
                new_octant == Octant(tree.Coordinates[child_candidate], center)
            IN  /\ tree' = [tree EXCEPT !.Coordinates[new_node_idx] = center,
                                        !.Sizes[new_node_idx] =
                                            RDiv(tree.Sizes[no], R(2))]
                /\ children' = SplitChildren(children, no, octant, new_node_idx,
                                             new_octant, child_candidate)
                /\ Center' = [Center EXCEPT ![new_node_idx] = center]
                /\ no' = new_node_idx
                /\ new_node_idx' = new_node_idx + 1
                /\ pc' = pc
    /\ UNCHANGED <<pass, NumParticles, points, masses, softening, morton_order, HasQuads,
                   TreewalkIndices, i, points0>>

\* ------------------------------------------------------------ SetupTreewalk
\* e, once the values v have been computed: the program computes a statement's
\* results before it goes on to the next statement
After(v, e) == IF v = v THEN e ELSE e

\* a negative array index counts from the end of the array
Wrap(idx) == IF idx < 0 THEN idx + NumNodes ELSE idx

\* what "for c in children[no]" meets and does not skip: the entries of
\* children[nd] in octant order that satisfy Keep
Row(ch, nd) == [k \in 1..8 |-> ch[nd][k - 1]]
NonEmpty(c) == c > -1
IsNode(c) == c >= NumParticles

\* the first loop of SetupTreewalk over the non-empty children cs from the j-th
\* on; last_node is its local
RECURSIVE LinkChildren(_, _, _, _, _)
\* FirstSubnode is stored for every child, not only while it is unset
LinkChildren_overwrite(T, nd, cs, j, last_node) ==
    IF j > Len(cs) THEN [tree |-> T, last_node |-> last_node]
    ELSE LET c  == cs[j]
             T1 == [T EXCEPT !.FirstSubnode[nd] = c]
             T2 == IF last_node > -1
                   THEN [T1 EXCEPT !.NextBranch[last_node] = c] ELSE T1
         IN  LinkChildren(T2, nd, cs, j + 1, c)

LinkChildren(T, nd, cs, j, last_node) ==
    IF j > Len(cs) THEN [tree |-> T, last_node |-> last_node]
    ELSE LET c  == cs[j]
             T1 == IF T.FirstSubnode[nd] < 0
                   THEN [T EXCEPT !.FirstSubnode[nd] = c] ELSE T
             T2 == IF last_node > -1
                   THEN [T1 EXCEPT !.NextBranch[last_node] = c] ELSE T1
         IN  LinkChildren(T2, nd, cs, j + 1, c)

RECURSIVE SetupTreewalk(_, _, _)
\* the second loop of SetupTreewalk over the children cs that are nodes
RECURSIVE RecurseChildren(_, _, _, _)
RecurseChildren(T, ch, cs, j) ==
    IF j > Len(cs) THEN T
    ELSE LET T1 == SetupTreewalk(T, ch, cs[j])
         IN  After(T1.NextBranch, RecurseChildren(T1, ch, cs, j + 1))

\* the last child is not linked to what follows its parent
SetupTreewalk_unlinked(T, ch, nd) ==
    IF nd < NumParticles THEN T
    ELSE LET l == LinkChildren(T, nd, SelectSeq(Row(ch, nd), NonEmpty), 1, -1)
         IN  RecurseChildren(l.tree, ch, SelectSeq(Row(ch, nd), IsNode), 1)

SetupTreewalk(T, ch, nd) ==
    IF nd < NumParticles THEN T
    ELSE LET l  == LinkChildren(T, nd, SelectSeq(Row(ch, nd), NonEmpty), 1, -1)
             T3 == [l.tree EXCEPT !.NextBranch[Wrap(l.last_node)] = l.tree.NextBranch[nd]]
         IN  RecurseChildren(T3, ch, SelectSeq(Row(ch, nd), IsNode), 1)

\* ----------------------------------------------------------- ComputeMoments
\* mi * (3*np.outer(ri,ri) - np.dot(ri,ri)*np.identity(3))
QuadShift(mi, ri) ==
    LET rr == Dot(ri, ri)
    IN  [a \in Dims |-> [b \in Dims |->
            RMul(R(mi), RSub(RMul(R(3), RMul(ri[a], ri[b])),
                             IF a = b THEN rr ELSE RZero))]]

RECURSIVE ComputeMoments(_, _, _, _)

\* the first loop over the non-empty children cs from the j-th on, with its
\* accumulators
RECURSIVE MonopoleLoop(_, _, _, _, _, _, _, _)
\* the mass of a child replaces the sum instead of being added to it
MonopoleLoop_assign(T, ch, quads, cs, j, m, com, hmax) ==
    IF j > Len(cs) THEN [tree |-> T, m |-> m, com |-> com, hmax |-> hmax]
    ELSE LET r    == ComputeMoments(T, ch, quads, cs[j])
             com1 == VAdd(com, VScale(R(r.m), r.com))
         IN  After(<<r.m, com1>>,
             MonopoleLoop(r.tree, ch, quads, cs, j + 1, r.m, com1,
                          IF r.h > hmax THEN r.h ELSE hmax))

MonopoleLoop(T, ch, quads, cs, j, m, com, hmax) ==
    IF j > Len(cs) THEN [tree |-> T, m |-> m, com |-> com, hmax |-> hmax]
    ELSE LET r    == ComputeMoments(T, ch, quads, cs[j])
             com1 == VAdd(com, VScale(R(r.m), r.com))
         IN  After(<<r.m, com1>>,
             MonopoleLoop(r.tree, ch, quads, cs, j + 1, m + r.m, com1,
                          IF r.h > hmax THEN r.h ELSE hmax))

\* the second loop over the non-empty children (run when HasQuads)
RECURSIVE QuadrupoleLoop(_, _, _, _, _, _, _)
QuadrupoleLoop(T, ch, quads, cs, j, quad, com) ==
    IF j > Len(cs) THEN [tree |-> T, quad |-> quad]
    ELSE LET r     == ComputeMoments(T, ch, quads, cs[j])
             ri    == VSub(r.com, com)
             quad1 == MAdd(quad, MAdd(r.quad, QuadShift(r.m, ri)))
         IN  After(<<r.m, quad1>>,
             QuadrupoleLoop(r.tree, ch, quads, cs, j + 1, quad1, com))

\* returns the tree as the call leaves it and the call's four results
ComputeMoments(T, ch, quads, nd) ==
    IF nd < NumParticles
    THEN [tree |-> T, h |-> T.Softenings[nd], m |-> T.Masses[nd],
          quad |-> T.Quadrupoles[nd], com |-> T.Coordinates[nd]]
    ELSE LET cs   == SelectSeq(Row(ch, nd), NonEmpty)
             mono == MonopoleLoop(T, ch, quads, cs, 1, 0, VZero, 0)
             com  == [d \in Dims |-> RDiv(mono.com[d], R(mono.m))]
             q    == IF quads THEN QuadrupoleLoop(mono.tree, ch, quads, cs, 1, MZero, com)
                     ELSE [tree |-> mono.tree, quad |-> MZero]
             dx   == VSub(com, q.tree.Coordinates[nd])
             delta == Dot(dx, dx)
         IN  After(<<mono.m, com, q.quad>>,
             [tree |-> [q.tree EXCEPT !.Masses[nd] = mono.m,
                                      !.Quadrupoles[nd] = q.quad,
                                      !.Deltas[nd] = delta,
                                      !.Coordinates[nd] = com,
                                      !.Softenings[nd] = mono.hmax],
              h |-> mono.hmax, m |-> mono.m, quad |-> q.quad, com |-> com])

\* ----------------------------------------------------------- GetWalkIndices
\* the loop of GetWalkIndices; fuel bounds the iterations the model follows, and
\* finished tells whether the loop ended at the sentinel inside that bound and
\* without a store past the end of TreewalkIndices
RECURSIVE WalkLoop(_, _, _, _, _)
WalkLoop(T, twi, nd, index, fuel) ==
    IF nd <= -1 THEN [TreewalkIndices |-> twi, finished |-> TRUE]
    ELSE IF fuel = 0 THEN [TreewalkIndices |-> twi, finished |-> FALSE]
    ELSE IF nd < NumParticles
         THEN IF index >= NumParticles
              THEN [TreewalkIndices |-> twi, finished |-> FALSE]
              ELSE WalkLoop(T, [twi EXCEPT ![index] = nd], T.NextBranch[nd],
                            index + 1, fuel - 1)
         ELSE WalkLoop(T, twi, T.FirstSubnode[nd], index, fuel - 1)

GetWalkIndices(T, twi) == WalkLoop(T, twi, NumParticles, 0, 2 * NumNodes + 1)

\* ------------------------------------------------------- Octree.__init__
\* lines 40 and 46: SetupTreewalk on the tree just built
SetupTreewalkCall ==
    /\ pc = "built"
    /\ tree' = SetupTreewalk(tree, children, NumParticles)
    /\ pc' = IF pass = 1 THEN "linked" ELSE "relinked"
    /\ UNCHANGED <<pass, NumParticles, points, masses, softening, morton_order, HasQuads,
                   TreewalkIndices, children, new_node_idx, i, no, Center, points0>>

\* line 41: ComputeMoments on the provisional tree
ComputeMomentsFirst ==
    /\ pc = "linked"
    /\ tree' = ComputeMoments(tree, children, HasQuads, NumParticles).tree
    /\ pc' = "moments"
    /\ UNCHANGED <<pass, NumParticles, points, masses, softening, morton_order, HasQuads,
                   TreewalkIndices, children, new_node_idx, i, no, Center, points0>>

\* line 42
GetWalkIndicesCall ==
    /\ pc = "moments"
    /\ LET w == GetWalkIndices(tree, TreewalkIndices)
       IN  /\ TreewalkIndices' = w.TreewalkIndices
           /\ pc' = IF w.finished THEN "walked" ELSE "hang"
    /\ UNCHANGED <<pass, NumParticles, points, masses, softening, morton_order, HasQuads,
                   tree, children, new_node_idx, i, no, Center, points0>>

\* np.take(a, TreewalkIndices) and points[TreewalkIndices]
Take(a, twi) == [k \in 0..(NumParticles - 1) |-> a[twi[k]]]

\* line 45: the tree is built again on the inputs in walk order
MortonRebuild ==
    /\ pc = "walked"
    /\ morton_order
    /\ BuildTreeBegin(Take(points, TreewalkIndices), Take(masses, TreewalkIndices),
                      Take(softening, TreewalkIndices))
    /\ pass' = 2
    /\ UNCHANGED <<NumParticles, masses, softening, morton_order, HasQuads,
                   TreewalkIndices, points0>>

\* line 48: ComputeMoments on the tree that is returned
ComputeMomentsFinal ==
    /\ pc = (IF morton_order THEN "relinked" ELSE "walked")
    /\ tree' = ComputeMoments(tree, children, HasQuads, NumParticles).tree
    /\ pc' = "done"
    /\ UNCHANGED <<pass, NumParticles, points, masses, softening, morton_order, HasQuads,
                   TreewalkIndices, children, new_node_idx, i, no, Center, points0>>

Next ==
    \/ FirstBuild
    \/ InsertPlace
    \/ InsertDescend
    \/ InsertJitter
    \/ InsertSplit
    \/ SetupTreewalkCall
    \/ ComputeMomentsFirst
    \/ GetWalkIndicesCall
    \/ MortonRebuild
    \/ ComputeMomentsFinal

Spec == Init /\ [][Next]_vars

\* ------------------------------------------------- the tree, read directly
\* root N and the nodes N+1 .. new_node_idx-1
AllocatedNodes == NumParticles..(new_node_idx - 1)

\* BuildTree has returned
Built == pc \in {"built", "linked", "moments", "walked", "relinked", "done"}
\* SetupTreewalk has returned on the tree that children describes
Linked == pc \in {"linked", "moments", "walked", "relinked", "done"}

\* the particles below element e, in depth-first order with octants ascending
RECURSIVE DepthFirst(_, _)
RECURSIVE DepthFirstFrom(_, _, _)
DepthFirstFrom(ch, nd, k) ==
    IF k > 7 THEN <<>>
    ELSE (IF ch[nd][k] < 0 THEN <<>> ELSE DepthFirst(ch, ch[nd][k]))
         \o DepthFirstFrom(ch, nd, k + 1)
DepthFirst(ch, e) == IF e < NumParticles THEN <<e>> ELSE DepthFirstFrom(ch, e, 0)

SeqToArray(q) == [k \in 0..(Len(q) - 1) |-> q[k + 1]]
Range(f) == {f[x] : x \in DOMAIN f}
Subtree(e) == Range(DepthFirst(children, e))

RECURSIVE SumOver(_, _)
SumOver(f, S) == IF S = {} THEN 0
                 ELSE LET x == CHOOSE y \in S : TRUE IN f[x] + SumOver(f, S \ {x})

\* the particles met by the walk over FirstSubnode/NextBranch from element e that
\* takes NextBranch instead of FirstSubnode at node skip
RECURSIVE WalkSkipping(_, _, _)
WalkSkipping(skip, e, fuel) ==
    IF e <= -1 \/ fuel = 0 THEN {}
    ELSE IF e < NumParticles
         THEN {e} \cup WalkSkipping(skip, tree.NextBranch[e], fuel - 1)
         ELSE IF e = skip THEN WalkSkipping(skip, tree.NextBranch[e], fuel - 1)
         ELSE WalkSkipping(skip, tree.FirstSubnode[e], fuel - 1)

\* the non-empty children of nd in octants above k
LaterSiblings(nd, k) == {o \in (k + 1)..7 : children[nd][o] > -1}
Min(S) == CHOOSE x \in S : \A y \in S : x <= y

\* ------------------------------------------------------------------ claims
\* C1: whenever BuildTree has completed, every particle index 0..N-1 occurs in
\* exactly one slot of children over the allocated nodes.
C1_EveryParticleInOneSlot ==
    Built => \A p \in Particles :
        Cardinality({s \in AllocatedNodes \X (0..7) : children[s[1]][s[2]] = p}) = 1
C1_Witness ==
    pc = "built" /\ NumParticles = 4 /\ new_node_idx >= NumParticles + 3

\* C2: after BuildTree and SetupTreewalk the walk over FirstSubnode/NextBranch from
\* the root ends at the sentinel and visits the particles in depth-first,
\* octant-ascending order, each exactly once; TreewalkIndices, once filled, is a
\* permutation of 0..N-1.
C2_WalkIsDepthFirst ==
    /\ Linked =>
        LET w == GetWalkIndices(tree, [k \in Particles |-> -1])
        IN  /\ w.finished
            /\ w.TreewalkIndices = SeqToArray(DepthFirst(children, Root))
            /\ Range(w.TreewalkIndices) = Particles
    /\ pc = "walked" => Range(TreewalkIndices) = Particles
C2_Witness ==
    pc = "walked" /\ NumParticles = 4 /\ new_node_idx >= NumParticles + 3

\* C3: in the returned tree the mass of every internal node is the sum of the
\* masses of the particles of its subtree, and the root's mass is the total of
\* the masses given.
C3_NodeMassIsSubtreeSum ==
    pc = "done" =>
        /\ \A nd \in AllocatedNodes : tree.Masses[nd] = SumOver(tree.Masses, Subtree(nd))
        /\ tree.Masses[Root] = SumOver(masses, Particles)
C3_Witness ==
    /\ pc = "done" /\ NumParticles = 4 /\ new_node_idx >= NumParticles + 3
    /\ HasQuads /\ morton_order /\ masses[1] = 2

\* C4: in the returned tree Deltas of every internal node is the distance between
\* the geometric center the node was allocated with and its center of mass
\* (compared as squares).
C4_DeltaIsCenterToCom ==
    pc = "done" =>
        \A nd \in AllocatedNodes :
            tree.Deltas[nd] = Dot(VSub(tree.Coordinates[nd], Center[nd]),
                                  VSub(tree.Coordinates[nd], Center[nd]))

\* C5: with pairwise distinct positions, each time BuildTree allocates a new node
\* new_node_idx < NumNodes.
DistinctInput == \A a, b \in Particles : a # b => points0[a] # points0[b]
C5_NodesFitStorage ==
    (DistinctInput /\ pc = "insert" /\ child_candidate > -1
        /\ child_candidate < NumParticles /\ ~same_coord)
    => new_node_idx < NumNodes

\* C6: when the new particle lies at the coordinates of the resident one, the jitter
\* can make its position differ from the resident's, so that the restart loop ends.
C6_JitterCanSeparate ==
    (pc = "insert" /\ child_candidate > -1 /\ child_candidate < NumParticles /\ same_coord)
    => \E f \in [Dims -> JitterFactors] :
           [d \in Dims |-> JitterCoord(tree.Coordinates[i][d], f[d])]
               # tree.Coordinates[child_candidate]

\* C7: once ComputeMoments has run from the root, running it again on the unchanged
\* tree leaves every stored attribute as it is.
C7_MomentsIdempotent ==
    pc \in {"moments", "walked", "done"} =>
        ComputeMoments(tree, children, HasQuads, NumParticles).tree = tree

\* C8: with morton_order the walk of the returned tree visits the particle indices
\* 0, 1, ..., N-1 in ascending order.
C8_MortonWalkAscending ==
    (pc = "done" /\ morton_order) =>
        LET w == GetWalkIndices(tree, [k \in Particles |-> -1])
        IN  w.finished /\ w.TreewalkIndices = [k \in Particles |-> k]

\* C9: in the returned tree the center of mass of every internal node lies within
\* Size/2 of the node's geometric center along each axis.
C9_ComInsideCube ==
    pc = "done" =>
        \A nd \in AllocatedNodes : \A d \in Dims :
            LET dx == RSub(tree.Coordinates[nd][d], Center[nd][d])
            IN  ~RGt(<<Abs(dx[1]), dx[2]>>, RDiv(tree.Sizes[nd], R(2)))

\* C10: after SetupTreewalk, NextBranch of the root is -1 and NextBranch of every
\* child is its next non-empty sibling in octant order, or its parent's NextBranch
\* when there is none; a walk that takes NextBranch at an internal node omits the
\* particles of that node's subtree and no others.
C10_NextBranchSkipsSubtree ==
    Linked =>
        /\ tree.NextBranch[Root] = -1
        /\ \A nd \in AllocatedNodes : \A k \in 0..7 :
               children[nd][k] > -1 =>
                   tree.NextBranch[children[nd][k]] =
                       IF LaterSiblings(nd, k) # {}
                       THEN children[nd][Min(LaterSiblings(nd, k))]
                       ELSE tree.NextBranch[nd]
        /\ \A nd \in AllocatedNodes :
               WalkSkipping(nd, Root, 2 * NumNodes + 1) = Particles \ Subtree(nd)
C10_Witness ==
    /\ pc = "linked" /\ NumParticles = 4 /\ new_node_idx >= NumParticles + 3
    /\ \E nd \in AllocatedNodes \ {Root} : \E k \in 0..7 :
           /\ children[nd][k] >= NumParticles
           /\ LaterSiblings(nd, k) = {}
           /\ tree.NextBranch[nd] > -1

=============================================================================
